---- MODULE Spec2Model ----
(***************************************************************************)
(* A model of backend/server.py: the Flask handlers for /process-pdf,      *)
(* /evaluate-answer, /web-search and the thread store, with the helpers    *)
(* cleanup_file and parse_json_response and the atexit hook.               *)
(*                                                                         *)
(* Four specifications share the module, one per independent part of the   *)
(* server: SpecEval (evaluate_answer and parse_json_response), SpecSearch  *)
(* (web_search), SpecPdf (process_pdf, cleanup_file, the atexit hook) and  *)
(* Spec (the thread store handlers).  Each leaves the other parts'         *)
(* variables at their initial values.                                      *)
(***************************************************************************)
EXTENDS Integers, Sequences, FiniteSets, TLC

VARIABLES
    \* ---- /evaluate-answer
    epc,          \* position of the evaluate_answer handler
    eData,        \* request.get_json() of the evaluate request
    text,         \* response.text of the generation call (a token sequence)
    parsed,       \* what parse_json_response(text) returned
    eStatus,      \* HTTP status of the evaluate response (0: none yet)
    eBody,        \* body of the evaluate response
    \* ---- /web-search
    wpc,          \* position of the web_search handler
    wData,        \* request.get_json() of the search request
    wStatus,      \* HTTP status of the search response (0: none yet)
    wCalls,       \* number of model.generate_content calls made by web_search
    \* ---- /process-pdf, cleanup_file, atexit
    files,        \* the scratch paths that exist on disk
    locked,       \* the scratch paths whose os.unlink raises (permission error)
    tempFiles,    \* _temp_files, the process-wide registry (a list)
    nextPath,     \* number of scratch paths handed out by NamedTemporaryFile
    preq,         \* the process_pdf requests
    pdfResp,      \* what the latest request to reach line 104 read and answered
    exited,       \* the interpreter has run its atexit hooks
    atExit,       \* the registry content when the hook started
    \* ---- thread store
    threads,      \* threads_collection: a sequence of thread documents
    usedIds,      \* number of uuid4 values drawn for threads so far
    usedMsgIds,   \* number of uuid4 values drawn for messages so far
    treq,         \* the add_message requests in flight
    resp,         \* the latest response of a thread-store handler
    deleted       \* ids for which a DELETE has answered 200

evalVars   == <<epc, eData, text, parsed, eStatus, eBody>>
searchVars == <<wpc, wData, wStatus, wCalls>>
pdfVars    == <<files, locked, tempFiles, nextPath, preq, pdfResp, exited, atExit>>
threadVars == <<threads, usedIds, usedMsgIds, treq, resp, deleted>>
vars       == <<evalVars, searchVars, pdfVars, threadVars>>

\* ------------------------------------------------------------------ bounds
MaxTextLen == 5
MaxQueryLen == 5
MaxRangeLen == 3
NPdfReqs == 2
NReqs == 2
MaxIds == 2
MaxMsgIds == 2

\* ----------------------------------------------------------- small helpers
SeqsUpTo(S, n) == UNION {[1..k -> S] : k \in 0..n}

Range(f) == {f[i] : i \in DOMAIN f}

\* =========================================================================
\* parse_json_response and ast.literal_eval
\* =========================================================================
\* The model's text is a sequence of tokens; the string is the tokens joined
\* by single spaces.  STR is the string literal "a".
LB  == "{"
RB  == "}"
STR == "\"a\""
COL == ":"
COM == ","
NUM == "1"
TRU == "true"

Tokens == {LB, RB, STR, COL, COM, NUM, TRU}
Texts  == SeqsUpTo(Tokens, MaxTextLen)

\* A decoded value: k its kind, n its size (a str of n characters "a", the
\* int 1), e its elements (a dict's pairs, a set's or tuple's elements).
Val(k, n, e) == [k |-> k, n |-> n, e |-> e]
NoVal        == Val("none", 0, <<>>)
Pair(a, b)   == Val("pair", 0, <<a, b>>)

Ok(nx, v) == [ok |-> TRUE, nx |-> nx, v |-> v]
Fail      == [ok |-> FALSE, nx |-> 0, v |-> NoVal]

\* text.find('{'): index of the first brace, -1 when there is none (0-based).
RECURSIVE FindFrom(_, _, _)
FindFrom(s, c, i) ==
    IF i > Len(s) THEN -1
    ELSE IF s[i] = c THEN i - 1
    ELSE FindFrom(s, c, i + 1)

Find(s, c) == FindFrom(s, c, 1)

\* text.rfind('}'): index of the last brace, -1 when there is none (0-based).
RECURSIVE RFindFrom(_, _, _)
RFindFrom(s, c, i) ==
    IF i < 1 THEN -1
    ELSE IF s[i] = c THEN i - 1
    ELSE RFindFrom(s, c, i - 1)

RFind(s, c) == RFindFrom(s, c, Len(s))

\* text[start:end] for 0 <= start and 0 <= end <= len(text).
Slice(s, start, end) ==
    IF end <= start THEN <<>> ELSE SubSeq(s, start + 1, end)

\* Number of adjacent string literals from position i on: Python joins them.
RECURSIVE StrRun(_, _)
StrRun(s, i) ==
    IF i <= Len(s) /\ s[i] = STR THEN 1 + StrRun(s, i + 1) ELSE 0

\* ast.parse(json_str, mode='eval'), restricted to the tokens above: an atom is
\* a run of string literals, a number, a name, or a dict or set display (a
\* trailing comma allowed in both); the whole is an atom or a tuple of atoms.
RECURSIVE PyAtom(_, _), PyBrace(_, _), PyDictRest(_, _, _), PySetRest(_, _, _)
PyAtom(s, i) ==
    IF i > Len(s) THEN Fail
    ELSE IF s[i] = STR THEN Ok(i + StrRun(s, i), Val("str", StrRun(s, i), <<>>))
    ELSE IF s[i] = NUM THEN Ok(i + 1, Val("int", 1, <<>>))
    ELSE IF s[i] = TRU THEN Ok(i + 1, Val("name", 1, <<>>))
    ELSE IF s[i] = LB THEN PyBrace(s, i + 1)
    ELSE Fail

PyBrace(s, i) ==
    IF i > Len(s) THEN Fail
    ELSE IF s[i] = RB THEN Ok(i + 1, Val("dict", 0, <<>>))
    ELSE LET r1 == PyAtom(s, i) IN
         IF ~r1.ok THEN Fail
         ELSE IF r1.nx <= Len(s) /\ s[r1.nx] = COL
              THEN LET r2 == PyAtom(s, r1.nx + 1) IN
                   IF ~r2.ok THEN Fail
                   ELSE PyDictRest(s, r2.nx, <<Pair(r1.v, r2.v)>>)
              ELSE PySetRest(s, r1.nx, <<r1.v>>)

PyDictRest(s, i, acc) ==
    IF i > Len(s) THEN Fail
    ELSE IF s[i] = RB THEN Ok(i + 1, Val("dict", 0, acc))
    ELSE IF s[i] # COM THEN Fail
    ELSE IF i + 1 <= Len(s) /\ s[i + 1] = RB THEN Ok(i + 2, Val("dict", 0, acc))
    ELSE LET rk == PyAtom(s, i + 1) IN
         IF ~rk.ok \/ rk.nx > Len(s) THEN Fail
         ELSE IF s[rk.nx] # COL THEN Fail
         ELSE LET rv == PyAtom(s, rk.nx + 1) IN
              IF ~rv.ok THEN Fail
              ELSE PyDictRest(s, rv.nx, Append(acc, Pair(rk.v, rv.v)))

PySetRest(s, i, acc) ==
    IF i > Len(s) THEN Fail
    ELSE IF s[i] = RB THEN Ok(i + 1, Val("set", 0, acc))
    ELSE IF s[i] # COM THEN Fail
    ELSE IF i + 1 <= Len(s) /\ s[i + 1] = RB THEN Ok(i + 2, Val("set", 0, acc))
    ELSE LET re == PyAtom(s, i + 1) IN
         IF ~re.ok THEN Fail
         ELSE PySetRest(s, re.nx, Append(acc, re.v))

RECURSIVE PyTupleRest(_, _, _)
PyTupleRest(s, i, acc) ==
    IF i > Len(s) THEN Ok(i, Val("tuple", 0, acc))
    ELSE IF s[i] # COM THEN Fail
    ELSE IF i = Len(s) THEN Ok(i + 1, Val("tuple", 0, acc))
    ELSE LET re == PyAtom(s, i + 1) IN
         IF ~re.ok THEN Fail
         ELSE PyTupleRest(s, re.nx, Append(acc, re.v))

AstParse(s) ==
    LET r == PyAtom(s, 1) IN
    IF ~r.ok THEN Fail
    ELSE IF r.nx > Len(s) THEN r
    ELSE PyTupleRest(s, r.nx, <<r.v>>)

\* ast.literal_eval's _convert: a Name node raises ValueError("malformed node"),
\* an unhashable set element or dict key raises TypeError.
Hashable(v) == v.k \in {"str", "int"}

RECURSIVE ConvOk(_)
ConvOk(v) ==
    CASE v.k \in {"str", "int"} -> TRUE
      [] v.k = "name" -> FALSE
      [] v.k = "tuple" -> \A i \in 1..Len(v.e) : ConvOk(v.e[i])
      [] v.k = "set" -> \A i \in 1..Len(v.e) : ConvOk(v.e[i]) /\ Hashable(v.e[i])
      [] v.k = "dict" -> \A i \in 1..Len(v.e) :
                            /\ ConvOk(v.e[i].e[1])
                            /\ ConvOk(v.e[i].e[2])
                            /\ Hashable(v.e[i].e[1])
      [] OTHER -> FALSE

\* dict(zip(keys, values)): a key keeps its first position and its last value.
LastIndexOf(ps, key) ==
    CHOOSE j \in 1..Len(ps) :
        /\ ps[j].e[1] = key
        /\ \A m \in (j + 1)..Len(ps) : ps[m].e[1] # key

RECURSIVE DictFrom(_, _)
DictFrom(ps, i) ==
    IF i > Len(ps) THEN <<>>
    ELSE IF \E j \in 1..(i - 1) : ps[j].e[1] = ps[i].e[1]
         THEN DictFrom(ps, i + 1)
         ELSE <<Pair(ps[i].e[1], ps[LastIndexOf(ps, ps[i].e[1])].e[2])>>
              \o DictFrom(ps, i + 1)

\* set(elements): an element is kept once.
RECURSIVE SetFrom(_, _)
SetFrom(es, i) ==
    IF i > Len(es) THEN <<>>
    ELSE IF \E j \in 1..(i - 1) : es[j] = es[i]
         THEN SetFrom(es, i + 1)
         ELSE <<es[i]>> \o SetFrom(es, i + 1)

RECURSIVE Convert(_)
Convert(v) ==
    CASE v.k = "dict" ->
             Val("dict", 0,
                 DictFrom([i \in 1..Len(v.e) |->
                              Pair(Convert(v.e[i].e[1]), Convert(v.e[i].e[2]))], 1))
      [] v.k = "set" ->
             Val("set", 0, SetFrom([i \in 1..Len(v.e) |-> Convert(v.e[i])], 1))
      [] v.k = "tuple" ->
             Val("tuple", 0, [i \in 1..Len(v.e) |-> Convert(v.e[i])])
      [] OTHER -> v

\* ast.literal_eval(json_str): the value, or the exception it raises.
ErrNoJson  == "No JSON found in response"
ErrSyntax  == "invalid syntax"
ErrLiteral == "malformed node or string"

LiteralEval(s) ==
    LET r == AstParse(s) IN
    IF ~r.ok THEN [ok |-> FALSE, err |-> ErrSyntax, v |-> NoVal]
    ELSE IF ~ConvOk(r.v) THEN [ok |-> FALSE, err |-> ErrLiteral, v |-> NoVal]
    ELSE [ok |-> TRUE, err |-> "", v |-> Convert(r.v)]

\* What parse_json_response returns: the decoded value, or the fallback dict.
Decoded(v) ==
    [kind |-> "value", v |-> v, score |-> 0, feedback |-> "",
     error |-> "", original_response |-> <<>>]

Fallback(err, t) ==
    [kind |-> "fallback", v |-> NoVal, score |-> 0,
     feedback |-> "Could not parse evaluation",
     error |-> err, original_response |-> t]

parse_json_response(t) ==
    LET start == Find(t, LB)
        end   == RFind(t, RB) + 1
    IN  IF start = -1 \/ end = 0 THEN Fallback(ErrNoJson, t)
        ELSE LET r == LiteralEval(Slice(t, start, end)) IN
             IF r.ok THEN Decoded(r.v) ELSE Fallback(r.err, t)

\* evaluation['timestamp'] = ...: item assignment needs a dict.
CanSetItem(res) == res.kind = "fallback" \/ res.v.k = "dict"

\* jsonify(evaluation): json.dumps with sort_keys.  A set is not serialisable,
\* and the keys of a dict must be mutually comparable to be sorted.
RECURSIVE Serialisable(_)
Serialisable(v) ==
    CASE v.k \in {"str", "int"} -> TRUE
      [] v.k = "dict" ->
             /\ \A i \in 1..Len(v.e) : Serialisable(v.e[i].e[2])
             /\ \A i, j \in 1..Len(v.e) : v.e[i].e[1].k = v.e[j].e[1].k
      [] OTHER -> FALSE

CanJsonify(res) ==
    \/ res.kind = "fallback"
    \/ /\ res.v.k = "dict"
       /\ Serialisable(res.v)
       /\ \A i \in 1..Len(res.v.e) : res.v.e[i].e[1].k = "str"

\* =========================================================================
\* POST /evaluate-answer
\* =========================================================================
\* request.get_json(): it raises (no JSON body), or gives null, or an object
\* with or without each of the two fields.
EvalBodies ==
    {[json |-> "raise", student |-> FALSE, model |-> FALSE],
     [json |-> "null", student |-> FALSE, model |-> FALSE]}
    \cup {[json |-> "object", student |-> a, model |-> b] : a, b \in BOOLEAN}

NoResult ==
    [kind |-> "none", v |-> NoVal, score |-> 0, feedback |-> "",
     error |-> "", original_response |-> <<>>]

Body(kind, payload, ts) == [kind |-> kind, payload |-> payload, timestamp |-> ts]
NoBody == Body("none", NoResult, FALSE)

\* Lines 175-177: the body is read and the two fields are required.
EvalValidate ==
    /\ epc = "start"
    /\ IF eData.json = "raise"
       THEN /\ eStatus' = 500
            /\ eBody' = Body("Evaluation failed", NoResult, TRUE)
            /\ epc' = "done"
       ELSE IF eData.json = "null" \/ ~eData.student \/ ~eData.model
       THEN /\ eStatus' = 400
            /\ eBody' = Body("Missing required fields", NoResult, FALSE)
            /\ epc' = "done"
       ELSE /\ epc' = "validated"
            /\ UNCHANGED <<eStatus, eBody>>
    /\ UNCHANGED <<eData, text, parsed>>
    /\ UNCHANGED <<searchVars, pdfVars, threadVars>>

\* Line 192: the generation call returns some text, or raises.
EvalGenerate ==
    /\ epc = "validated"
    /\ \/ /\ \E t \in Texts : text' = t
          /\ epc' = "generated"
          /\ UNCHANGED <<eStatus, eBody>>
       \/ /\ eStatus' = 500
          /\ eBody' = Body("Evaluation failed", NoResult, TRUE)
          /\ epc' = "done"
          /\ UNCHANGED text
    /\ UNCHANGED <<eData, parsed>>
    /\ UNCHANGED <<searchVars, pdfVars, threadVars>>

\* Line 193.
EvalParse ==
    /\ epc = "generated"
    /\ parsed' = parse_json_response(text)
    /\ epc' = "parsed"
    /\ UNCHANGED <<eData, text, eStatus, eBody>>
    /\ UNCHANGED <<searchVars, pdfVars, threadVars>>

\* Lines 194-205: the timestamp is stored in the result, which is serialised;
\* an exception in either gives the 500 payload.
EvalRespond ==
    /\ epc = "parsed"
    /\ IF CanSetItem(parsed) /\ CanJsonify(parsed)
       THEN /\ eStatus' = 200
            /\ eBody' = Body("evaluation", parsed, TRUE)
       ELSE /\ eStatus' = 500
            /\ eBody' = Body("Evaluation failed", NoResult, TRUE)
    /\ epc' = "done"
    /\ UNCHANGED <<eData, text, parsed>>
    /\ UNCHANGED <<searchVars, pdfVars, threadVars>>

EvalNext ==
    \/ EvalValidate
    \/ EvalGenerate
    \/ EvalParse
    \/ EvalRespond

\* =========================================================================
\* POST /web-search
\* =========================================================================
\* A JSON field: absent, null, a number, or a string (a sequence of characters).
Field(t, str) == [t |-> t, s |-> str]
Missing   == Field("missing", <<>>)
JsonNull  == Field("null", <<>>)
JsonNum   == Field("number", <<>>)
Str(str)  == Field("string", str)

SP == " "
QueryChars == {SP, "a"}
QueryStrings == SeqsUpTo(QueryChars, MaxQueryLen)

\* str.strip(): leading and trailing whitespace removed.
RECURSIVE LStrip(_)
LStrip(str) ==
    IF str # <<>> /\ Head(str) = SP THEN LStrip(Tail(str)) ELSE str

RECURSIVE RStrip(_)
RStrip(str) ==
    IF str # <<>> /\ str[Len(str)] = SP
    THEN RStrip(SubSeq(str, 1, Len(str) - 1))
    ELSE str

Strip(str) == RStrip(LStrip(str))

\* request.get_json() of the search request.
SearchBodies ==
    {[json |-> "raise", query |-> Missing], [json |-> "null", query |-> Missing]}
    \cup {[json |-> "object", query |-> q] :
             q \in {Missing, JsonNull, JsonNum} \cup {Str(x) : x \in QueryStrings}}

\* data.get('query', ''): the field, or '' when the key is absent.
GetQuery(data) == IF data.query.t = "missing" THEN Str(<<>>) ELSE data.query

\* Lines 210-216.  get_json raising, data being None (None has no .get) and a
\* query that is no string (it has no .strip) all end in the except clause.
WebSearchValidate ==
    /\ wpc = "start"
    /\ IF \/ wData.json \in {"raise", "null"}
          \/ GetQuery(wData).t # "string"
       THEN wStatus' = 500 /\ wpc' = "done"
       ELSE LET query == Strip(GetQuery(wData).s) IN
            IF query = <<>> THEN wStatus' = 400 /\ wpc' = "done"
            ELSE IF Len(query) < 3 THEN wStatus' = 400 /\ wpc' = "done"
            ELSE wStatus' = 0 /\ wpc' = "validated"
    /\ UNCHANGED <<wData, wCalls>>
    /\ UNCHANGED <<evalVars, pdfVars, threadVars>>

\* Lines 221-234: the generation call; it raises, or its text is empty, or not.
WebSearchGenerate ==
    /\ wpc = "validated"
    /\ wCalls' = wCalls + 1
    /\ \E outcome \in {"raise", "empty", "text"} :
          wStatus' = IF outcome = "text" THEN 200 ELSE 500
    /\ wpc' = "done"
    /\ UNCHANGED wData
    /\ UNCHANGED <<evalVars, pdfVars, threadVars>>

SearchNext ==
    \/ WebSearchValidate
    \/ WebSearchGenerate

\* =========================================================================
\* POST /process-pdf, cleanup_file and the atexit hook
\* =========================================================================
PdfReqs == 1..NPdfReqs

\* page_range: the string 'all', or a string over a few characters.
ALL == <<"a", "l", "l">>
DASH == "-"
Digits == {"2", "5"}
RangeChars == Digits \cup {DASH, "a"}
PageRanges == {ALL} \cup SeqsUpTo(RangeChars, MaxRangeLen)

\* page_range.split('-'): the pieces between the dashes.
RECURSIVE Split(_)
Split(str) ==
    IF \A i \in 1..Len(str) : str[i] # DASH THEN <<str>>
    ELSE LET i == CHOOSE k \in 1..Len(str) :
                      str[k] = DASH /\ \A m \in 1..(k - 1) : str[m] # DASH
         IN  <<SubSeq(str, 1, i - 1)>> \o Split(SubSeq(str, i + 1, Len(str)))

\* int(piece) succeeds on a non-empty run of digits.
IsInt(str) == str # <<>> /\ \A i \in 1..Len(str) : str[i] \in Digits

DigitValue(c) == IF c = "2" THEN 2 ELSE 5

RECURSIVE IntOf(_)
IntOf(str) ==
    IF str = <<>> THEN 0
    ELSE 10 * IntOf(SubSeq(str, 1, Len(str) - 1)) + DigitValue(str[Len(str)])

\* start, end = map(int, page_range.split('-')): ValueError unless there are
\* exactly two pieces and both are integers.
ParseRange(str) ==
    LET parts == Split(str) IN
    IF Len(parts) = 2 /\ IsInt(parts[1]) /\ IsInt(parts[2])
    THEN [ok |-> TRUE, start |-> IntOf(parts[1]), end |-> IntOf(parts[2])]
    ELSE [ok |-> FALSE, start |-> 0, end |-> 0]

\* len(reader.pages) of the uploaded PDF.
NumPages == 5

\* len(pages[lo:hi]) for a list of n pages and 0 <= lo, 0 <= hi.
SliceLen(n, lo, hi) ==
    LET a == IF lo < n THEN lo ELSE n
        b == IF hi < n THEN hi ELSE n
    IN  IF b > a THEN b - a ELSE 0

\* Lines 107-117: the number of pages the handler goes on with, reader.pages
\* or pages[start-1:end], for a page_range that is 'all' or parses.
SelectedPages(range) ==
    IF range = ALL THEN NumPages
    ELSE SliceLen(NumPages, ParseRange(range).start - 1, ParseRange(range).end)

\* What the handler reads from the request and meets on its way.
PdfInputs ==
    [readable : BOOLEAN,            \* PdfReader(f) does not raise
     range : PageRanges,            \* request.form.get('page_range', 'all')
     extract : BOOLEAN,             \* page.extract_text() does not raise
     numQuestions : {"int", "other"},
     questionType : {"MCQ", "Subjective", "other"},
     generate : BOOLEAN]            \* model.generate_content does not raise

\* Line 119: page.extract_text() is called once per selected page, so it can
\* raise only when a page is selected.
ExtractRaises(in) == ~in.extract /\ SelectedPages(in.range) > 0

\* Lines 104-167: the status of a request whose scratch file passed line 101.
ProcessStatus(in) ==
    IF ~in.readable THEN 500
    ELSE IF in.range # ALL /\ ~ParseRange(in.range).ok THEN 400
    ELSE IF ExtractRaises(in) THEN 500
    ELSE IF in.numQuestions # "int" THEN 400
    ELSE IF in.questionType \notin {"MCQ", "Subjective"} THEN 400
    ELSE IF ~in.generate THEN 500
    ELSE 200

\* Line 152 is reached: the number of model.generate_content calls.
GenerateCalls(in) ==
    IF /\ in.readable
       /\ in.range = ALL \/ ParseRange(in.range).ok
       /\ ~ExtractRaises(in)
       /\ in.numQuestions = "int"
       /\ in.questionType \in {"MCQ", "Subjective"}
    THEN 1 ELSE 0

\* What a request read and answered: the page range (read at line 111, after
\* the PDF was opened), whether the PDF could be opened, the status, the calls.
Answer(range, readable, status, gen) ==
    [range |-> range, readable |-> readable, status |-> status, gen |-> gen]

ProcessOutcomes ==
    {Answer(IF in.readable THEN in.range ELSE <<>>, in.readable,
            ProcessStatus(in), GenerateCalls(in)) : in \in PdfInputs}

\* list.remove(x): the first occurrence is removed.
RECURSIVE RemoveFirst(_, _)
RemoveFirst(reg, p) ==
    IF reg = <<>> THEN <<>>
    ELSE IF Head(reg) = p THEN Tail(reg)
    ELSE <<Head(reg)>> \o RemoveFirst(Tail(reg), p)

\* cleanup_file(filepath) on the disk fs and the registry reg; lk are the
\* paths whose unlink raises.  The registry entry is removed only after a
\* successful unlink of an existing file; an exception is logged.
cleanup_file(fs, reg, lk, p) ==
    IF p # 0 /\ p \in fs
    THEN IF p \in lk
         THEN [files |-> fs, reg |-> reg]
         ELSE [files |-> fs \ {p},
               reg |-> IF p \in Range(reg) THEN RemoveFirst(reg, p) ELSE reg]
    ELSE [files |-> fs, reg |-> reg]

NoRequest == [pc |-> "start", tmp |-> 0, size |-> "none", status |-> 0]

NoPdfResp == Answer(<<>>, FALSE, 0, 0)

\* Lines 82-98: the upload is validated, the scratch file is created and
\* registered, and the upload is saved into it.
PdfUpload(r) ==
    /\ ~exited
    /\ preq[r].pc = "start"
    /\ \/ /\ \E upload \in {"no file", "no name", "not pdf"} :
                preq' = [preq EXCEPT ![r].status = 400, ![r].pc = "finally"]
          /\ UNCHANGED <<files, locked, tempFiles, nextPath>>
       \/ \E save \in {"data", "empty", "raise"}, lk \in BOOLEAN :
             LET p == nextPath + 1 IN
             /\ nextPath' = p
             /\ files' = files \cup {p}
             /\ locked' = IF lk THEN locked \cup {p} ELSE locked
             /\ tempFiles' = Append(tempFiles, p)
             /\ preq' = IF save = "raise"
                        THEN [preq EXCEPT ![r].tmp = p, ![r].status = 500,
                                          ![r].pc = "finally"]
                        ELSE [preq EXCEPT ![r].tmp = p, ![r].size = save,
                                          ![r].pc = "saved"]
    /\ UNCHANGED <<pdfResp, exited, atExit>>
    /\ UNCHANGED <<evalVars, searchVars, threadVars>>

\* Something outside the server removes a scratch file.
ExternalRemove(p) ==
    /\ ~exited
    /\ p \in files
    /\ files' = files \ {p}
    /\ UNCHANGED <<locked, tempFiles, nextPath, preq, pdfResp, exited, atExit>>
    /\ UNCHANGED <<evalVars, searchVars, threadVars>>

\* Lines 100-167.
PdfProcess(r) ==
    /\ ~exited
    /\ preq[r].pc = "saved"
    /\ IF preq[r].tmp \notin files \/ preq[r].size = "empty"
       THEN /\ preq' = [preq EXCEPT ![r].status = 400, ![r].pc = "finally"]
            /\ UNCHANGED pdfResp
       ELSE \E out \in ProcessOutcomes :
               /\ preq' = [preq EXCEPT ![r].status = out.status, ![r].pc = "finally"]
               /\ pdfResp' = out
    /\ UNCHANGED <<files, locked, tempFiles, nextPath, exited, atExit>>
    /\ UNCHANGED <<evalVars, searchVars, threadVars>>

\* Lines 168-170: finally; the response is returned after it.
PdfFinally(r) ==
    /\ ~exited
    /\ preq[r].pc = "finally"
    /\ LET c == IF preq[r].tmp # 0
                THEN cleanup_file(files, tempFiles, locked, preq[r].tmp)
                ELSE [files |-> files, reg |-> tempFiles]
       IN  files' = c.files /\ tempFiles' = c.reg
    /\ preq' = [preq EXCEPT ![r].pc = "done"]
    /\ UNCHANGED <<locked, nextPath, pdfResp, exited, atExit>>
    /\ UNCHANGED <<evalVars, searchVars, threadVars>>

\* Line 52: [cleanup_file(f) for f in _temp_files].  The list iterator keeps
\* an index into the list that cleanup_file shortens.
RECURSIVE AtexitLoop(_, _, _, _)
AtexitLoop(i, fs, reg, lk) ==
    IF i > Len(reg) THEN [files |-> fs, reg |-> reg]
    ELSE LET c == cleanup_file(fs, reg, lk, reg[i]) IN
         AtexitLoop(i + 1, c.files, c.reg, lk)

AtexitHook ==
    /\ ~exited
    /\ LET c == AtexitLoop(1, files, tempFiles, locked)
       IN  files' = c.files /\ tempFiles' = c.reg
    /\ exited' = TRUE
    /\ atExit' = [reg |-> tempFiles, files |-> files]
    /\ UNCHANGED <<locked, nextPath, preq, pdfResp>>
    /\ UNCHANGED <<evalVars, searchVars, threadVars>>

PdfNext ==
    \/ \E r \in PdfReqs : PdfUpload(r)
    \/ \E r \in PdfReqs : PdfProcess(r)
    \/ \E r \in PdfReqs : PdfFinally(r)
    \/ \E p \in PdfReqs : ExternalRemove(p)
    \/ AtexitHook

\* =========================================================================
\* The thread store: /threads, /threads/<id>, /threads/<id>/messages, report
\* =========================================================================
Reqs == 1..NReqs
Ids  == 1..MaxIds
MsgIds == 1..MaxMsgIds

\* Body fields: the empty string, a blank one, and one padded with blanks.
Strings   == {<<>>, <<SP>>, <<SP, "a", SP>>}
FieldVals == {Missing, JsonNum} \cup {Str(x) : x \in Strings}

\* ---- the collection (pymongo), a sequence of documents
ThreadIds == {threads[i].id : i \in DOMAIN threads}

MessageIds ==
    UNION {{threads[i].messages[j].id : j \in DOMAIN threads[i].messages} :
              i \in DOMAIN threads}

\* find_one({"id": id}): position of the first matching document, 0 if none.
FindOne(coll, id) ==
    IF \E i \in DOMAIN coll : coll[i].id = id
    THEN CHOOSE i \in DOMAIN coll :
             coll[i].id = id /\ \A j \in 1..(i - 1) : coll[j].id # id
    ELSE 0

\* insert_one(doc).
InsertOne(coll, doc) == Append(coll, doc)

\* A delete_one whose filter matches no document (a wrong key): a slip that
\* the delete-twice property must detect.
DeleteOneWrongKey(coll, id) == [coll |-> coll, count |-> 0]

\* delete_one({"id": id}): the first matching document is removed;
\* count is deleted_count.
DeleteOne(coll, id) ==
    LET i == FindOne(coll, id) IN
    IF i = 0 THEN [coll |-> coll, count |-> 0]
    ELSE [coll |-> SubSeq(coll, 1, i - 1) \o SubSeq(coll, i + 1, Len(coll)),
          count |-> 1]

\* An update_one with upsert=True: a push that matches nothing inserts a
\* document, a slip that would bring a deleted thread back.
UpdateOnePushUpsert(coll, id, msg) ==
    IF \E i \in DOMAIN coll : coll[i].id = id
    THEN LET i == CHOOSE k \in DOMAIN coll : coll[k].id = id
         IN  [coll |-> [coll EXCEPT ![i].messages = Append(@, msg)], count |-> 1]
    ELSE [coll |-> Append(coll, [id |-> id, title |-> <<>>, description |-> <<>>,
                                 messages |-> <<msg>>]),
          count |-> 0]

\* update_one({"id": id}, {"$push": {"messages": msg}}), no upsert;
\* count is modified_count.
UpdateOnePush(coll, id, msg) ==
    LET i == FindOne(coll, id) IN
    IF i = 0 THEN [coll |-> coll, count |-> 0]
    ELSE [coll |-> [coll EXCEPT ![i].messages = Append(@, msg)], count |-> 1]

\* ---- responses
NoMessage == [id |-> 0, text |-> <<>>, sender |-> <<>>, pinned |-> FALSE]

\* op, the thread id of the URL, the status, the exception the handler logged
\* ("none": no exception), the two body fields of a create, the id the handler
\* generated or was given, the ids a listing gave.
Response(op, id, status, exc, f1, f2, new, seen) ==
    [op |-> op, id |-> id, status |-> status, exc |-> exc,
     f1 |-> f1, f2 |-> f2, new |-> new, seen |-> seen]

NoResponse == Response("none", 0, 0, "none", Missing, Missing, 0, {})

NoAdd == [pc |-> "idle", id |-> 0, msg |-> NoMessage]

\* Lines 247-253: GET /threads.
ListThreads ==
    /\ \/ resp' = Response("list", 0, 200, "none", Missing, Missing, 0, ThreadIds)
       \/ resp' = Response("list", 0, 500, "db", Missing, Missing, 0, {})
    /\ UNCHANGED <<threads, usedIds, usedMsgIds, treq, deleted>>
    /\ UNCHANGED <<evalVars, searchVars, pdfVars>>

\* Lines 255-287: POST /threads.  A field that is present but no string has no
\* .strip; the uuid is drawn before the fields are stripped.  insert_one adds
\* the '_id' it stored (an ObjectId) to new_thread, which jsonify cannot
\* serialise: the TypeError of line 277 is caught at line 281, after the insert.
CreateThread ==
    /\ \E json \in {"raise", "null", "object"} :
       \E title, description \in IF json = "object" THEN FieldVals ELSE {Missing} :
          /\ IF json = "raise"
             THEN /\ resp' = Response("create", 0, 500, "json",
                                      title, description, 0, {})
                  /\ UNCHANGED <<threads, usedIds>>
             ELSE IF json = "null" \/ title = Missing \/ description = Missing
             THEN /\ resp' = Response("create", 0, 400, "none",
                                      title, description, 0, {})
                  /\ UNCHANGED <<threads, usedIds>>
             ELSE /\ usedIds < MaxIds
                  /\ usedIds' = usedIds + 1
                  /\ IF title.t # "string" \/ description.t # "string"
                     THEN /\ resp' = Response("create", 0, 500, "type",
                                              title, description, 0, {})
                          /\ UNCHANGED threads
                     ELSE LET new_thread == [id |-> usedIds + 1,
                                             title |-> Strip(title.s),
                                             description |-> Strip(description.s),
                                             messages |-> <<>>]
                          IN  \/ /\ threads' = InsertOne(threads, new_thread)
                                 /\ resp' = Response("create", 0, 500, "jsonify",
                                                     title, description, 0, {})
                              \/ /\ resp' = Response("create", 0, 500, "db", title,
                                                     description, 0, {})
                                 /\ UNCHANGED threads
    /\ UNCHANGED <<usedMsgIds, treq, deleted>>
    /\ UNCHANGED <<evalVars, searchVars, pdfVars>>

\* Lines 295-299: GET /threads/<id>.
GetThread(id) ==
    /\ \/ resp' = Response("get", id,
                           IF FindOne(threads, id) = 0 THEN 404 ELSE 200,
                           "none", Missing, Missing, 0, {})
       \/ resp' = Response("get", id, 500, "db", Missing, Missing, 0, {})
    /\ UNCHANGED <<threads, usedIds, usedMsgIds, treq, deleted>>
    /\ UNCHANGED <<evalVars, searchVars, pdfVars>>

\* Lines 301-305: DELETE /threads/<id>.
DeleteThread(id) ==
    /\ \/ LET result == DeleteOne(threads, id) IN
          /\ threads' = result.coll
          /\ resp' = Response("delete", id,
                              IF result.count = 0 THEN 404 ELSE 200,
                              "none", Missing, Missing, 0, {})
          /\ deleted' = IF result.count = 0 THEN deleted ELSE deleted \cup {id}
       \/ /\ resp' = Response("delete", id, 500, "db", Missing, Missing, 0, {})
          /\ UNCHANGED <<threads, deleted>>
    /\ UNCHANGED <<usedIds, usedMsgIds, treq>>
    /\ UNCHANGED <<evalVars, searchVars, pdfVars>>

\* Lines 317-331: POST /threads/<id>/messages up to the new message.
AddMessageFind(r, id) ==
    /\ treq[r].pc = "idle"
    /\ \A q \in 1..(r - 1) : treq[q].pc # "idle"     \* the first free handler
    /\ \E json \in {"raise", "null", "object"} :
       \E txt, sender \in IF json = "object" THEN FieldVals ELSE {Missing} :
          /\ IF json = "raise"
             THEN /\ resp' = Response("add", id, 500, "json", Missing, Missing, 0, {})
                  /\ UNCHANGED <<treq, usedMsgIds>>
             ELSE IF json = "null" \/ txt = Missing \/ sender = Missing
             THEN /\ resp' = Response("add", id, 400, "none", Missing, Missing, 0, {})
                  /\ UNCHANGED <<treq, usedMsgIds>>
             ELSE \/ /\ resp' = Response("add", id, 500, "db",
                                         Missing, Missing, 0, {})
                     /\ UNCHANGED <<treq, usedMsgIds>>
                  \/ IF FindOne(threads, id) = 0
                     THEN /\ resp' = Response("add", id, 404, "none",
                                              Missing, Missing, 0, {})
                          /\ UNCHANGED <<treq, usedMsgIds>>
                     ELSE /\ usedMsgIds < MaxMsgIds
                          /\ usedMsgIds' = usedMsgIds + 1
                          /\ IF txt.t # "string" \/ sender.t # "string"
                             THEN /\ resp' = Response("add", id, 500, "type",
                                                      Missing, Missing, 0, {})
                                  /\ UNCHANGED treq
                             ELSE /\ treq' = [treq EXCEPT ![r] =
                                        [pc |-> "push", id |-> id,
                                         msg |-> [id |-> usedMsgIds + 1,
                                                  text |-> Strip(txt.s),
                                                  sender |-> Strip(sender.s),
                                                  pinned |-> FALSE]]]
                                  /\ UNCHANGED resp
    /\ UNCHANGED <<threads, usedIds, deleted>>
    /\ UNCHANGED <<evalVars, searchVars, pdfVars>>

\* Lines 333-345: the push and the response.
AddMessagePush(r) ==
    /\ treq[r].pc = "push"
    /\ \/ LET result == UpdateOnePush(threads, treq[r].id, treq[r].msg) IN
          /\ threads' = result.coll
          /\ resp' = Response("add", treq[r].id,
                              IF result.count = 1 THEN 201 ELSE 500, "none",
                              Missing, Missing, treq[r].msg.id, {})
       \/ /\ resp' = Response("add", treq[r].id, 500, "db",
                              Missing, Missing, 0, {})
          /\ UNCHANGED threads
    /\ treq' = [treq EXCEPT ![r] = NoAdd]
    /\ UNCHANGED <<usedIds, usedMsgIds, deleted>>
    /\ UNCHANGED <<evalVars, searchVars, pdfVars>>

\* Lines 352-367: POST /threads/<id>/messages/<mid>/report.
ReportMessage(id, mid) ==
    /\ \/ LET i == FindOne(threads, id) IN
          resp' = Response("report", id,
                           IF i = 0 THEN 404
                           ELSE IF \A j \in DOMAIN threads[i].messages :
                                      threads[i].messages[j].id # mid
                                THEN 404
                                ELSE 200,
                           "none", Missing, Missing, mid, {})
       \/ resp' = Response("report", id, 500, "db", Missing, Missing, mid, {})
    /\ UNCHANGED <<threads, usedIds, usedMsgIds, treq, deleted>>
    /\ UNCHANGED <<evalVars, searchVars, pdfVars>>

ThreadNext ==
    \/ ListThreads
    \/ CreateThread
    \/ \E id \in Ids : GetThread(id)
    \/ \E id \in Ids : DeleteThread(id)
    \/ \E r \in Reqs, id \in Ids : AddMessageFind(r, id)
    \/ \E r \in Reqs : AddMessagePush(r)
    \/ \E id \in Ids, mid \in MsgIds : ReportMessage(id, mid)

\* =========================================================================
\* The specifications
\* =========================================================================
\* Every specification starts all four parts in their state after start-up;
\* the request a part is given is drawn where the part is the one specified.
InitEval ==
    /\ epc = "start"
    /\ eData \in EvalBodies
    /\ text = <<>>
    /\ parsed = NoResult
    /\ eStatus = 0
    /\ eBody = NoBody
    /\ wpc = "start"
    /\ wData = [json |-> "null", query |-> Missing]
    /\ wStatus = 0
    /\ wCalls = 0
    /\ files = {}
    /\ locked = {}
    /\ tempFiles = <<>>
    /\ nextPath = 0
    /\ preq = [r \in PdfReqs |-> NoRequest]
    /\ pdfResp = NoPdfResp
    /\ exited = FALSE
    /\ atExit = [reg |-> <<>>, files |-> {}]
    /\ threads = <<>>
    /\ usedIds = 0
    /\ usedMsgIds = 0
    /\ treq = [r \in Reqs |-> NoAdd]
    /\ resp = NoResponse
    /\ deleted = {}

InitSearch ==
    /\ epc = "start"
    /\ eData = [json |-> "null", student |-> FALSE, model |-> FALSE]
    /\ text = <<>>
    /\ parsed = NoResult
    /\ eStatus = 0
    /\ eBody = NoBody
    /\ wpc = "start"
    /\ wData \in SearchBodies
    /\ wStatus = 0
    /\ wCalls = 0
    /\ files = {}
    /\ locked = {}
    /\ tempFiles = <<>>
    /\ nextPath = 0
    /\ preq = [r \in PdfReqs |-> NoRequest]
    /\ pdfResp = NoPdfResp
    /\ exited = FALSE
    /\ atExit = [reg |-> <<>>, files |-> {}]
    /\ threads = <<>>
    /\ usedIds = 0
    /\ usedMsgIds = 0
    /\ treq = [r \in Reqs |-> NoAdd]
    /\ resp = NoResponse
    /\ deleted = {}

InitPdf ==
    /\ epc = "start"
    /\ eData = [json |-> "null", student |-> FALSE, model |-> FALSE]
    /\ text = <<>>
    /\ parsed = NoResult
    /\ eStatus = 0
    /\ eBody = NoBody
    /\ wpc = "start"
    /\ wData = [json |-> "null", query |-> Missing]
    /\ wStatus = 0
    /\ wCalls = 0
    /\ files = {}
    /\ locked = {}
    /\ tempFiles = <<>>
    /\ nextPath = 0
    /\ preq = [r \in PdfReqs |-> NoRequest]
    /\ pdfResp = NoPdfResp
    /\ exited = FALSE
    /\ atExit = [reg |-> <<>>, files |-> {}]
    /\ threads = <<>>
    /\ usedIds = 0
    /\ usedMsgIds = 0
    /\ treq = [r \in Reqs |-> NoAdd]
    /\ resp = NoResponse
    /\ deleted = {}

Init ==
    /\ epc = "start"
    /\ eData = [json |-> "null", student |-> FALSE, model |-> FALSE]
    /\ text = <<>>
    /\ parsed = NoResult
    /\ eStatus = 0
    /\ eBody = NoBody
    /\ wpc = "start"
    /\ wData = [json |-> "null", query |-> Missing]
    /\ wStatus = 0
    /\ wCalls = 0
    /\ files = {}
    /\ locked = {}
    /\ tempFiles = <<>>
    /\ nextPath = 0
    /\ preq = [r \in PdfReqs |-> NoRequest]
    /\ pdfResp = NoPdfResp
    /\ exited = FALSE
    /\ atExit = [reg |-> <<>>, files |-> {}]
    /\ threads = <<>>
    /\ usedIds = 0
    /\ usedMsgIds = 0
    /\ treq = [r \in Reqs |-> NoAdd]
    /\ resp = NoResponse
    /\ deleted = {}

SpecEval   == InitEval /\ [][EvalNext]_vars
SpecSearch == InitSearch /\ [][SearchNext]_vars
SpecPdf    == InitPdf /\ [][PdfNext]_vars

Next == ThreadNext
Spec == Init /\ [][Next]_vars

\* =========================================================================
\* The claims
\* =========================================================================

\* ---- C1
\* A page range is valid when it is "a-b" with integers a <= b.
ValidRange(str) ==
    LET parts == Split(str) IN
    /\ Len(parts) = 2
    /\ IsInt(parts[1])
    /\ IsInt(parts[2])
    /\ IntOf(parts[1]) <= IntOf(parts[2])

\* C1: a request whose PDF was saved and opened and whose page_range is neither
\* "all" nor a valid range is answered 400, and no generation call is made.
C1_InvalidRangeIs400 ==
    (pdfResp.readable /\ pdfResp.range # ALL /\ ~ValidRange(pdfResp.range))
        => (pdfResp.status = 400 /\ pdfResp.gen = 0)

\* ---- C2
\* A body field is empty after trimming: absent, or a string of blanks.
EmptyField(f) == f.t = "missing" \/ (f.t = "string" /\ Strip(f.s) = <<>>)
FilledField(f) == f.t = "string" /\ Strip(f.s) # <<>>

\* C2: a POST /threads whose body was read, whose fields are strings or absent
\* and whose insert did not raise is answered 400 and leaves the store
\* unchanged when its title or description is empty after trimming; when both
\* are non-empty it is answered 201 and adds exactly one thread, with no
\* messages and an id no other thread has.
C2_CreateValidates ==
    [][(resp' # resp /\ resp'.op = "create" /\ resp'.exc \in {"none", "jsonify"})
          => /\ (EmptyField(resp'.f1) \/ EmptyField(resp'.f2))
                   => (resp'.status = 400 /\ threads' = threads)
             /\ (FilledField(resp'.f1) /\ FilledField(resp'.f2))
                   => /\ resp'.status = 201
                      /\ resp'.new \notin ThreadIds
                      /\ threads' = Append(threads, threads'[Len(threads')])
                      /\ threads'[Len(threads')].id = resp'.new
                      /\ threads'[Len(threads')].messages = <<>>]_vars

\* ---- C3
\* C3: a POST /threads/<id>/messages with text and sender, whose handler logged
\* no exception, is answered 404 with no thread changed when no thread has the
\* id, and otherwise 201 with that thread's messages longer by exactly the new
\* message (fresh id, not pinned) and every other thread unchanged, whatever ran
\* between the handler's lookup and its push.
C3_AppendGrowsByOne ==
    [][(resp' # resp /\ resp'.op = "add" /\ resp'.exc = "none"
            /\ resp'.status # 400)
          => IF resp'.id \notin ThreadIds
             THEN resp'.status = 404 /\ threads' = threads
             ELSE /\ resp'.status = 201
                  /\ resp'.new \notin MessageIds
                  /\ LET i == FindOne(threads, resp'.id) IN
                     /\ Len(threads') = Len(threads)
                     /\ \A k \in DOMAIN threads : k # i => threads'[k] = threads[k]
                     /\ Len(threads'[i].messages) = Len(threads[i].messages) + 1
                     /\ SubSeq(threads'[i].messages, 1, Len(threads[i].messages))
                            = threads[i].messages
                     /\ threads'[i].messages[Len(threads'[i].messages)].id = resp'.new
                     /\ ~threads'[i].messages[Len(threads'[i].messages)].pinned]_vars

\* ---- C4
\* C4: a DELETE /threads/<id> that raised nothing answers 200 when a thread has
\* the id and 404 when none has, and afterwards no thread has the id; once a
\* DELETE of an id has answered 200, every later DELETE and GET of that id
\* answers 404 and no listing gives the id.  So of two DELETEs of one thread,
\* in either order, exactly one answers 200.
C4_DeleteTwice ==
    [][(resp' # resp /\ resp'.exc = "none")
          => /\ resp'.op = "delete"
                   => /\ resp'.status = IF resp'.id \in ThreadIds THEN 200 ELSE 404
                      /\ resp'.id \notin {threads'[i].id : i \in DOMAIN threads'}
                      /\ resp'.id \in deleted => resp'.status = 404
             /\ (resp'.op = "get" /\ resp'.id \in deleted) => resp'.status = 404
             /\ resp'.op = "get"
                   => resp'.status = IF resp'.id \in ThreadIds THEN 200 ELSE 404
             /\ resp'.op = "list"
                   => resp'.seen = ThreadIds /\ resp'.seen \cap deleted = {}]_vars

\* A second DELETE of a thread has been answered 404.
C4_Witness ==
    /\ resp.op = "delete"
    /\ resp.exc = "none"
    /\ resp.status = 404
    /\ resp.id \in deleted

\* ---- C5
\* The JSON object grammar over the tokens: an object is {} or a list of
\* "string : value" members separated by commas; a value is a string, a number,
\* true or an object.
RECURSIVE JsonValue(_, _), JsonMembers(_, _, _)
JsonValue(s, i) ==
    IF i > Len(s) THEN Fail
    ELSE IF s[i] = STR THEN Ok(i + 1, Val("str", 1, <<>>))
    ELSE IF s[i] = NUM THEN Ok(i + 1, Val("int", 1, <<>>))
    ELSE IF s[i] = TRU THEN Ok(i + 1, Val("bool", 1, <<>>))
    ELSE IF s[i] = LB
         THEN IF i + 1 <= Len(s) /\ s[i + 1] = RB
              THEN Ok(i + 2, Val("dict", 0, <<>>))
              ELSE JsonMembers(s, i + 1, <<>>)
    ELSE Fail

JsonMembers(s, i, acc) ==
    IF i + 1 > Len(s) THEN Fail
    ELSE IF s[i] # STR \/ s[i + 1] # COL THEN Fail
    ELSE LET rv == JsonValue(s, i + 2) IN
         IF ~rv.ok \/ rv.nx > Len(s) THEN Fail
         ELSE LET acc2 == Append(acc, Pair(Val("str", 1, <<>>), rv.v)) IN
              IF s[rv.nx] = RB THEN Ok(rv.nx + 1, Val("dict", 0, DictFrom(acc2, 1)))
              ELSE IF s[rv.nx] = COM THEN JsonMembers(s, rv.nx + 1, acc2)
              ELSE Fail

\* The substring from the first '{' to the last '}', when there is one.
HasBraces(t) ==
    /\ Find(t, LB) # -1
    /\ RFind(t, RB) # -1
    /\ Find(t, LB) < RFind(t, RB)

Enclosed(t) == Slice(t, Find(t, LB), RFind(t, RB) + 1)

WellFormedJson(t) ==
    /\ HasBraces(t)
    /\ JsonValue(Enclosed(t), 1).ok
    /\ JsonValue(Enclosed(t), 1).nx = Len(Enclosed(t)) + 1

\* C5: parse_json_response returns the decoded object when the enclosed
\* substring is a well-formed JSON object, and otherwise the fallback object
\* (score 0, "Could not parse evaluation", the input as original_response).
C5_ParseContract ==
    parsed.kind # "none"
        => IF WellFormedJson(text)
           THEN parsed = Decoded(JsonValue(Enclosed(text), 1).v)
           ELSE /\ parsed.kind = "fallback"
                /\ parsed.score = 0
                /\ parsed.feedback = "Could not parse evaluation"
                /\ parsed.original_response = text

\* ---- C6
\* C6: when a process-pdf request whose scratch file can be unlinked has
\* returned, the file does not exist and its path is not in the registry; and
\* with no such request in flight the registry holds no such path.
C6_ScratchFileGone ==
    ~exited =>
        \A r \in PdfReqs :
            (preq[r].pc = "done" /\ preq[r].tmp # 0 /\ preq[r].tmp \notin locked)
                => (preq[r].tmp \notin files /\ preq[r].tmp \notin Range(tempFiles))

\* ---- C7
\* C7: an evaluate-answer request with both fields, whose generation call gave
\* some text, is answered 200 with what parse_json_response gave plus a
\* timestamp.
C7_EvaluateNever500 ==
    (epc = "done" /\ parsed.kind # "none")
        => /\ eStatus = 200
           /\ eBody.payload = parsed
           /\ eBody.timestamp

\* ---- C8
\* The search input is missing or malformed: a body that decodes to null, no
\* query, a query that is no string, or one shorter than 3 characters after
\* trimming.
BadSearchInput(data) ==
    \/ data.json = "null"
    \/ /\ data.json = "object"
       /\ \/ data.query.t # "string"
          \/ Len(Strip(data.query.s)) < 3

\* C8: a web-search request whose body was decoded and whose input is missing
\* or malformed is answered 400 and calls the generation API not at all; the
\* API is called only for a trimmed query of at least 3 characters.
C8_BadSearchIs400 ==
    /\ (wpc = "done" /\ BadSearchInput(wData)) => (wStatus = 400 /\ wCalls = 0)
    /\ wCalls > 0 => (wData.json = "object" /\ ~BadSearchInput(wData))

\* ---- C9
\* C9: after the atexit hook has run over a registry whose files all exist and
\* can be unlinked, none of those files exists and the registry is empty.
C9_AtexitCleansAll ==
    (exited /\ \A p \in Range(atExit.reg) : p \in atExit.files /\ p \notin locked)
        => (tempFiles = <<>> /\ \A p \in Range(atExit.reg) : p \notin files)

\* ---- C10
\* C10: no thread has the id of a thread whose DELETE was answered 200, no two
\* threads share an id, and no message id occurs twice in the store.
C10_NeverResurrected ==
    /\ deleted \cap ThreadIds = {}
    /\ \A i, j \in DOMAIN threads : threads[i].id = threads[j].id => i = j
    /\ \A i1, i2 \in DOMAIN threads :
          \A j1 \in DOMAIN threads[i1].messages, j2 \in DOMAIN threads[i2].messages :
             threads[i1].messages[j1].id = threads[i2].messages[j2].id
                => (i1 = i2 /\ j1 = j2)

\* An append that passed its lookup pushed after its thread was deleted, while
\* another thread, created beside it, holds the message of a second append.
C10_Witness ==
    /\ resp.op = "add"
    /\ resp.exc = "none"
    /\ resp.status = 500
    /\ resp.id \in deleted
    /\ \E i \in DOMAIN threads : threads[i].messages # <<>>

====
